---------------------------- MODULE Spec2Model ----------------------------
(***************************************************************************)
(* Model of src/sleep_database.py: class SleepDatabase.                    *)
(*                                                                         *)
(* One SleepDatabase object holds one psycopg2 connection and cursor to    *)
(* the table driver(driver_asleep TIMESTAMP PRIMARY KEY).  The model keeps *)
(* the committed rows of that table, the state of the connection and of    *)
(* its transaction, and what the last operation produced (the exception it *)
(* raised, the row it fetched, the panel or chart it drew).                *)
(*                                                                         *)
(* Abstractions, all stated here:                                          *)
(*  - a timestamp has minute resolution (the program's has microseconds);  *)
(*    the table stores it as a count of minutes since day 0, the way the   *)
(*    server stores a TIMESTAMP as a count of microseconds;                *)
(*  - np.polyfit is the exact least-squares line, kept as integer          *)
(*    numerators over one common denominator (floating-point rounding is   *)
(*    not modelled);                                                       *)
(*  - a chart or panel is the data handed to matplotlib.                   *)
(***************************************************************************)
EXTENDS Integers, Sequences, FiniteSets

\* Capacity of the table in the model: inserts stop at MaxEvents rows.
MaxEvents == 5

\* range(24): the hours of a day.
HoursPerDay == 24

\* Resolution of a stored timestamp: ticks (minutes) in one hour.
TicksPerHour == 60

Hours == 0 .. (HoursPerDay - 1)

\* The values datetime.now() returns in the model: naive local date-times
\* [day, hour, minute].  07:00 on three days, 23:10 and 23:45 on one day,
\* 00:30 on another.
SampleInstants ==
    { [day |-> 0, hour |-> 7,  minute |-> 0],
      [day |-> 1, hour |-> 7,  minute |-> 0],
      [day |-> 2, hour |-> 7,  minute |-> 0],
      [day |-> 0, hour |-> 23, minute |-> 10],
      [day |-> 0, hour |-> 23, minute |-> 45],
      [day |-> 1, hour |-> 0,  minute |-> 30] }

VARIABLES
    store,      \* committed rows of table driver: a set, by the primary key
    conn,       \* "open" | "closed"
    tx,         \* transaction of the connection: "idle" | "active" | "aborted"
    abortedBy,  \* the operation whose rejected statement aborted the
                \* transaction, "" while it is not aborted
    inserted,   \* number of take_sleep_timestamp calls that committed
    op,         \* the last operation called
    arg,        \* the timestamp the last take_sleep_timestamp tried to insert
    raised,     \* the exception the last operation raised, or "none"
    result,     \* cursor.fetchone() of the last most_common_sleep_hour
    panel,      \* the panel the last most_common_sleep_hour drew
    rows,       \* cursor.fetchall() of the last plot_sleep_trend
    printed,    \* what the last plot_sleep_trend printed
    bars,       \* the bar series the last plot_sleep_trend drew
    trend       \* the trend line the last plot_sleep_trend drew

vars == << store, conn, tx, abortedBy, inserted, op, arg, raised, result, panel,
           rows, printed, bars, trend >>

-----------------------------------------------------------------------------
(* Values *)

None     == << >>      \* Python None (and the empty tuple): falsy
NoArg    == -1
NoBars   == << >>
NoTrend  == << >>
NoPanel  == [text |-> "", hour |-> -1, frequency |-> -1]

-----------------------------------------------------------------------------
(* Timestamps: Python datetime <-> the server's TIMESTAMP *)

\* psycopg2 adapts the datetime to a TIMESTAMP: ticks since day 0.
Adapt(dt) == (dt.day * HoursPerDay + dt.hour) * TicksPerHour + dt.minute

\* psycopg2 builds a datetime from a fetched TIMESTAMP.
Typecast(t) ==
    LET perDay == HoursPerDay * TicksPerHour
    IN  [day    |-> t \div perDay,
         hour   |-> (t % perDay) \div TicksPerHour,
         minute |-> t % TicksPerHour]

\* SQL: EXTRACT(HOUR FROM driver_asleep), computed on the stored value.
ExtractHour(t) == (t \div TicksPerHour) % HoursPerDay

\* pandas: df['timestamp'].dt.hour on one fetched row.
DtHourMutant(t) == Typecast(t).hour % 12

DtHour(t) == Typecast(t).hour

-----------------------------------------------------------------------------
(* Connection and transaction *)

\* cursor.execute(...): the exception it raises, or "none".  fault says that
\* the server rejects this statement.
ExecuteError(fault) ==
    IF conn = "closed" THEN "InterfaceError"
    ELSE IF tx = "aborted" THEN "InFailedSqlTransaction"
    ELSE IF fault THEN "DatabaseError"
    ELSE "none"

\* The transaction after cursor.execute(...) ended with err: the first
\* statement opens a transaction, a server error aborts it, and nothing in
\* the class rolls it back.
TxAfterExecute(err) ==
    IF err = "none" THEN "active"
    ELSE IF err = "InterfaceError" THEN tx
    ELSE "aborted"

\* The operation that aborted the transaction, after operation name's
\* cursor.execute(...) ended with err.
AbortedByAfterExecute(err, name) ==
    IF err \in { "DatabaseError", "UniqueViolation" } THEN name ELSE abortedBy

-----------------------------------------------------------------------------
(* Sums over the hours *)

\* The sum of f[0], ..., f[23].
SumHours(f) ==
    LET S[k \in -1 .. (HoursPerDay - 1)] == IF k < 0 THEN 0 ELSE f[k] + S[k - 1]
    IN  S[HoursPerDay - 1]

-----------------------------------------------------------------------------
(* most_common_sleep_hour *)

\* SELECT EXTRACT(HOUR ...) AS sleep_hour, COUNT(*) AS frequency
\* FROM driver GROUP BY sleep_hour
GroupByHour(S) ==
    { << h, Cardinality({ t \in S : ExtractHour(t) = h }) >> :
        h \in { ExtractHour(t) : t \in S } }

\* ORDER BY frequency DESC LIMIT 1: the rows the server may return first.
\* Rows of equal frequency have no order among them.
OrderByFrequencyDescMutant(G) ==
    { g \in G : \A g2 \in G : g[2] <= g2[2] }

OrderByFrequencyDesc(G) ==
    { g \in G : \A g2 \in G : g[2] >= g2[2] }

\* cursor.fetchone(): one row, or None when the query returned none.
FetchOne(G) == IF G = {} THEN { None } ELSE OrderByFrequencyDesc(G)

\* `if result:`
TruthyMutant(r) == r # None /\ r[1] # 0

Truthy(r) == r # None

ModePanel(r) ==
    IF Truthy(r)
    THEN [text |-> "Most Common Sleep Hour", hour |-> r[1], frequency |-> r[2]]
    ELSE [text |-> "No sleep records found", hour |-> -1, frequency |-> -1]

-----------------------------------------------------------------------------
(* plot_sleep_trend *)

\* SELECT driver_asleep FROM driver; fetchall(): the rows in any order.
RECURSIVE FetchAll(_)
FetchAll(S) ==
    IF S = {} THEN { << >> }
    ELSE UNION { { << t >> \o r : r \in FetchAll(S \ {t}) } : t \in S }

\* df['hour'] = df['timestamp'].dt.hour
HourColumn(rs) == [i \in 1 .. Len(rs) |-> DtHour(rs[i])]

\* df['hour'].value_counts().sort_index(): hour -> count, for the hours
\* that occur, counted row by row.
RECURSIVE ValueCountsMutant(_)
ValueCountsMutant(hs) ==
    IF hs = << >> THEN << >>
    ELSE LET n    == Len(hs)
             rest == ValueCountsMutant(SubSeq(hs, 1, n - 1))
             h    == hs[n]
         IN  IF n > 1 /\ hs[n - 1] = h
             THEN rest
             ELSE [k \in (DOMAIN rest) \cup {h} |->
                      IF k = h
                      THEN (IF h \in DOMAIN rest THEN rest[h] ELSE 0) + 1
                      ELSE rest[k]]

RECURSIVE ValueCounts(_)
ValueCounts(hs) ==
    IF hs = << >> THEN << >>
    ELSE LET n    == Len(hs)
             rest == ValueCounts(SubSeq(hs, 1, n - 1))
             h    == hs[n]
         IN  [k \in (DOMAIN rest) \cup {h} |->
                 IF k = h
                 THEN (IF h \in DOMAIN rest THEN rest[h] ELSE 0) + 1
                 ELSE rest[k]]

\* full_hours = pd.Series(0, index=range(24)); full_hours.update(sleep_counts)
FullHours(sc) == [h \in Hours |-> IF h \in DOMAIN sc THEN sc[h] ELSE 0]

\* The histogram plot_sleep_trend builds from fetched rows.
Histogram(rs) == FullHours(ValueCounts(HourColumn(rs)))

\* `if not rows:`
NoRowsMutant(rs) == Len(rs) < 2

NoRows(rs) == Len(rs) = 0

\* `if len(sleep_counts) >= 2:`
EnoughDataMutant(rs, sc) == Len(rs) >= 2

EnoughData(rs, sc) == Cardinality(DOMAIN sc) >= 2

\* Denominator of the least-squares coefficients over x = 0..23.
FitDen ==
    LET sx  == SumHours([x \in Hours |-> x])
        sxx == SumHours([x \in Hours |-> x * x])
    IN  HoursPerDay * sxx - sx * sx

\* np.polyfit(x_hours, y, 1): slope and intercept, as numerators over FitDen.
PolyFit(y) ==
    LET sx  == SumHours([x \in Hours |-> x])
        sxx == SumHours([x \in Hours |-> x * x])
        sy  == SumHours(y)
        sxy == SumHours([x \in Hours |-> x * y[x]])
    IN  [slope     |-> HoursPerDay * sxy - sx * sy,
         intercept |-> sxx * sy - sx * sxy]

\* p = np.poly1d(z); p(x): numerator over FitDen.
Poly1d(z, x) == z.slope * x + z.intercept

\* np.maximum(trendline_y, 0), one element.
MaximumMutant(v, floor) == v

Maximum(v, floor) == IF v >= floor THEN v ELSE floor

\* The trend line plot_sleep_trend draws for histogram y.
TrendLine(y) ==
    LET z == PolyFit(y)
    IN  [x \in Hours |-> Maximum(Poly1d(z, x), 0)]

-----------------------------------------------------------------------------
(* take_sleep_timestamp *)

\* INSERT INTO driver (driver_asleep) VALUES (%s), then commit.
InsertRowMutant(S, t) == {t}

InsertRow(S, t) == S \cup {t}

-----------------------------------------------------------------------------
(* State machine *)

\* After __init__: connected, cursor open, create_table() executed inside
\* the connection's first transaction.
Init ==
    /\ store = {}
    /\ conn = "open"
    /\ tx = "active"
    /\ abortedBy = ""
    /\ inserted = 0
    /\ op = "init"
    /\ arg = NoArg
    /\ raised = "none"
    /\ result = None
    /\ panel = NoPanel
    /\ rows = << >>
    /\ printed = ""
    /\ bars = NoBars
    /\ trend = NoTrend

NoModeOutput == result' = None /\ panel' = NoPanel

NoPlotOutput ==
    rows' = << >> /\ printed' = "" /\ bars' = NoBars /\ trend' = NoTrend

\* create_table(): CREATE TABLE IF NOT EXISTS driver (...)
CreateTable ==
    \E fault \in BOOLEAN :
        LET err == ExecuteError(fault)
        IN  /\ op' = "create_table"
            /\ arg' = NoArg
            /\ raised' = err
            /\ tx' = TxAfterExecute(err)
            /\ abortedBy' = AbortedByAfterExecute(err, "create_table")
            /\ NoModeOutput
            /\ NoPlotOutput
            /\ UNCHANGED << store, conn, inserted >>

\* take_sleep_timestamp(): timestamp = datetime.now(); INSERT; commit.
TakeSleepTimestamp ==
    /\ Cardinality(store) < MaxEvents
    /\ \E now \in SampleInstants, fault \in BOOLEAN :
        LET t    == Adapt(now)
            err0 == ExecuteError(fault)
            err  == IF err0 = "none" /\ t \in store
                    THEN "UniqueViolation" ELSE err0
        IN  /\ op' = "insert"
            /\ arg' = t
            /\ raised' = err
            /\ IF err = "none"
               THEN /\ store' = InsertRow(store, t)
                    /\ inserted' = inserted + 1
                    /\ tx' = "idle"
                    /\ abortedBy' = ""
               ELSE /\ tx' = TxAfterExecute(err)
                    /\ abortedBy' = AbortedByAfterExecute(err, "insert")
                    /\ UNCHANGED << store, inserted >>
            /\ NoModeOutput
            /\ NoPlotOutput
            /\ UNCHANGED conn

\* most_common_sleep_hour()
MostCommonSleepHour ==
    \E fault \in BOOLEAN :
        LET err == ExecuteError(fault)
        IN  /\ op' = "mode"
            /\ arg' = NoArg
            /\ raised' = err
            /\ tx' = TxAfterExecute(err)
            /\ abortedBy' = AbortedByAfterExecute(err, "mode")
            /\ IF err = "none"
               THEN \E r \in FetchOne(GroupByHour(store)) :
                        /\ result' = r
                        /\ panel' = ModePanel(r)
               ELSE NoModeOutput
            /\ NoPlotOutput
            /\ UNCHANGED << store, conn, inserted >>

\* plot_sleep_trend()
PlotSleepTrend ==
    \E fault \in BOOLEAN :
        LET err == ExecuteError(fault)
        IN  /\ op' = "plot"
            /\ arg' = NoArg
            /\ raised' = err
            /\ tx' = TxAfterExecute(err)
            /\ abortedBy' = AbortedByAfterExecute(err, "plot")
            /\ IF err = "none"
               THEN \E rs \in FetchAll(store) :
                        /\ rows' = rs
                        /\ IF NoRows(rs)
                           THEN /\ printed' = "No sleep data to display."
                                /\ bars' = NoBars
                                /\ trend' = NoTrend
                           ELSE \E sc \in { ValueCounts(HourColumn(rs)) } :
                                \E y \in { FullHours(sc) } :
                                    /\ printed' = ""
                                    /\ bars' = y
                                    /\ trend' = IF EnoughData(rs, sc)
                                                THEN TrendLine(y)
                                                ELSE NoTrend
               ELSE NoPlotOutput
            /\ NoModeOutput
            /\ UNCHANGED << store, conn, inserted >>

\* close_connection(): cursor.close(); connection.close().  An open
\* transaction is discarded.
CloseConnection ==
    /\ op' = "close"
    /\ arg' = NoArg
    /\ raised' = "none"
    /\ conn' = "closed"
    /\ tx' = "idle"
    /\ abortedBy' = ""
    /\ NoModeOutput
    /\ NoPlotOutput
    /\ UNCHANGED << store, inserted >>

Next ==
    \/ CreateTable
    \/ TakeSleepTimestamp
    \/ MostCommonSleepHour
    \/ PlotSleepTrend
    \/ CloseConnection

Spec == Init /\ [][Next]_vars

-----------------------------------------------------------------------------
(* Properties *)

\* The hour of day of a stored timestamp, read off the date-time that
\* datetime.now() returned for it.
HourOfDay(t) == (CHOOSE i \in SampleInstants : Adapt(i) = t).hour

\* Number of stored events of S in hour h.
EventsInHour(S, h) == Cardinality({ t \in S : HourOfDay(t) = h })

\* Hours holding at least one event of S.
HoursWithEvents(S) == { HourOfDay(t) : t \in S }

Range(s) == { s[i] : i \in DOMAIN s }

\* The last operation was a plot_sleep_trend that drew a chart.
PlotDrew == op = "plot" /\ raised = "none" /\ rows # << >>

\* The last operation was a most_common_sleep_hour that reported an hour.
ModeReported == op = "mode" /\ raised = "none" /\ result # None

NoDataMessage == "No sleep data to display."

\* C1: the histogram plot_sleep_trend builds from a non-empty snapshot has
\* exactly the 24 entries 0..23, each >= 0, entry h is the number of stored
\* events whose hour of day is h, and the entries sum to the number of
\* events in the snapshot.
C1_HistogramShape ==
    PlotDrew =>
        /\ Range(rows) = store
        /\ Len(rows) = Cardinality(store)
        /\ DOMAIN bars = Hours
        /\ \A h \in Hours : bars[h] >= 0 /\ bars[h] = EventsInHour(store, h)
        /\ SumHours(bars) = Len(rows)

\* C1 witness: the chart of three events at hour 7 and two at hour 23.
C1_Witness ==
    /\ PlotDrew
    /\ bars[7] = 3
    /\ bars[23] = 2
    /\ SumHours(bars) = 5

\* C2: on a non-empty store most_common_sleep_hour reports (hour, count)
\* where count is the maximum bucket of the histogram plot_sleep_trend
\* computes over the same snapshot and the reported hour's bucket holds
\* exactly count events.
C2_ModeIsHistogramMaximum ==
    ModeReported =>
        \A rs \in FetchAll(store) :
            LET y == Histogram(rs)
            IN  /\ result[1] \in Hours
                /\ y[result[1]] = result[2]
                /\ \A h \in Hours : y[h] <= result[2]

\* C2 witness: hour 23 twice and hour 7 three times reports (7, 3).
C2_Witness ==
    /\ ModeReported
    /\ EventsInHour(store, 23) = 2
    /\ EventsInHour(store, 7) = 3
    /\ Cardinality(store) = 5
    /\ result = << 7, 3 >>

\* The lowest-numbered hour among those holding the most events of S.
LowestModeHour(S) ==
    CHOOSE h \in Hours :
        /\ \A h2 \in Hours : EventsInHour(S, h2) <= EventsInHour(S, h)
        /\ \A h2 \in Hours :
              EventsInHour(S, h2) = EventsInHour(S, h) => h <= h2

\* C3: when hours are tied for the maximum count, most_common_sleep_hour
\* reports the lowest-numbered of the tied hours, so two queries over the
\* same store contents never report different hours.
C3_TieReportsLowestHour ==
    ModeReported => result[1] = LowestModeHour(store)

\* C4: most_common_sleep_hour takes the "No sleep records found" branch if
\* and only if the store holds no events, and whenever it reports an hour
\* the reported count is >= 1.
C4_NoRecordsIffEmpty ==
    (op = "mode" /\ raised = "none") =>
        /\ panel.text \in { "No sleep records found", "Most Common Sleep Hour" }
        /\ (panel.text = "No sleep records found") <=> (store = {})
        /\ (panel.text = "Most Common Sleep Hour") =>
              /\ panel.hour \in Hours
              /\ panel.frequency >= 1
              /\ panel.frequency = EventsInHour(store, panel.hour)

\* C4 witness: a mode of hour 0 with a positive count is reported.
C4_Witness ==
    /\ op = "mode"
    /\ raised = "none"
    /\ panel.text = "Most Common Sleep Hour"
    /\ panel.hour = 0
    /\ panel.frequency >= 1

\* C5: on a non-empty store plot_sleep_trend draws a trend line if and only
\* if at least 2 distinct hours hold an event; the bars are drawn either way.
C5_TrendIffTwoHours ==
    PlotDrew =>
        /\ DOMAIN bars = Hours
        /\ (trend # NoTrend) <=> (Cardinality(HoursWithEvents(store)) >= 2)

\* C5 witness: several events, all in one hour: bars but no trend line.
C5_Witness ==
    /\ PlotDrew
    /\ Cardinality(store) >= 2
    /\ Cardinality(HoursWithEvents(store)) = 1
    /\ DOMAIN bars = Hours
    /\ trend = NoTrend

\* The line a*x + b (a, b numerators over FitDen) is the least-squares line
\* of histogram y: its residuals satisfy both normal equations.
IsLeastSquaresLine(a, b, y) ==
    /\ SumHours([x \in Hours |-> FitDen * y[x] - a * x - b]) = 0
    /\ SumHours([x \in Hours |-> x * (FitDen * y[x] - a * x - b)]) = 0

\* C6: a drawn trend line has, at each hour x, the value
\* max(slope*x + intercept, 0) of the least-squares line of the unclamped
\* histogram: nothing is below 0, and values already >= 0 are unchanged.
C6_TrendClampedAtZero ==
    (PlotDrew /\ trend # NoTrend) =>
        LET z == PolyFit(bars)
        IN  /\ FitDen > 0
            /\ IsLeastSquaresLine(z.slope, z.intercept, bars)
            /\ DOMAIN trend = Hours
            /\ \A x \in Hours :
                  LET v == z.slope * x + z.intercept
                  IN  /\ trend[x] >= 0
                      /\ v >= 0 => trend[x] = v
                      /\ v < 0 => trend[x] = 0

\* C6 witness: a drawn trend line whose unclamped fit is negative at some
\* hour and positive at another.
C6_Witness ==
    /\ PlotDrew
    /\ trend # NoTrend
    /\ \E x \in Hours : Poly1d(PolyFit(bars), x) < 0 /\ trend[x] = 0
    /\ \E x \in Hours : Poly1d(PolyFit(bars), x) > 0 /\ trend[x] > 0

\* C7: every row order of the same stored timestamps gives the histogram
\* that was drawn, and the same trend-line decision.
C7_OrderIndependent ==
    PlotDrew =>
        \A rs \in FetchAll(store) :
            \E sc \in { ValueCounts(HourColumn(rs)) } :
                /\ FullHours(sc) = bars
                /\ EnoughData(rs, sc) <=> (trend # NoTrend)

\* C7 witness: a chart drawn from rows fetched out of timestamp order, with
\* two rows of one hour separated by a row of another hour.
C7_Witness ==
    /\ PlotDrew
    /\ Len(rows) >= 3
    /\ rows[1] > rows[2]
    /\ DtHour(rows[1]) = DtHour(rows[3])
    /\ DtHour(rows[1]) # DtHour(rows[2])

\* C8: on an empty store plot_sleep_trend prints the no-data message and
\* draws neither bars nor trend line; on a non-empty store it never prints
\* it and always draws the 24 bars.
C8_NoDataBranchIffEmpty ==
    (op = "plot" /\ raised = "none") =>
        /\ (printed = NoDataMessage) <=> (store = {})
        /\ (store = {}) => (bars = NoBars /\ trend = NoTrend)
        /\ (store # {}) => (printed = "" /\ DOMAIN bars = Hours)

\* C8 witness: plot_sleep_trend on the empty store.
C8_Witness ==
    /\ op = "plot"
    /\ raised = "none"
    /\ store = {}
    /\ printed = NoDataMessage
    /\ bars = NoBars

\* One step either is a take_sleep_timestamp that committed, adding exactly
\* the new timestamp, or leaves the stored events and the count alone.
C9_Step ==
    \/ /\ op' = "insert"
       /\ raised' = "none"
       /\ arg' \notin store
       /\ store' = store \cup { arg' }
       /\ inserted' = inserted + 1
    \/ /\ ~(op' = "insert" /\ raised' = "none")
       /\ store' = store
       /\ inserted' = inserted

\* C9: the store only grows: a successful take_sleep_timestamp adds exactly
\* one event and keeps every earlier one, every other operation leaves the
\* stored events unchanged, and in every state the number of stored events
\* equals the number of successful inserts.
C9_StoreOnlyGrows ==
    /\ [](Cardinality(store) = inserted)
    /\ [][C9_Step]_vars

\* C9 witness: a second insert committed while the first event is kept.
C9_Witness ==
    /\ op = "insert"
    /\ raised = "none"
    /\ inserted >= 2
    /\ arg \in store
    /\ Cardinality(store) = inserted

\* C10: a store failure during take_sleep_timestamp (a rejected statement,
\* or a timestamp that is already stored) is raised to the caller, changes
\* no stored event, and is fatal only to that operation: no later operation
\* fails because a take_sleep_timestamp failed.
C10_FailureFatalOnlyToItsOperation ==
    /\ Cardinality(store) = inserted
    /\ (op = "insert" /\ raised = "UniqueViolation") => arg \in store
    /\ (raised = "InFailedSqlTransaction") => (abortedBy # "insert")

=============================================================================
